---- MODULE Spec2Model ----
(***************************************************************************)
(* ShelfDB storage engine (class ShelfDB and its helpers): the in-memory   *)
(* state, the journal file, the snapshot file, and the synchronous         *)
(* handlers that mutate them.  backupFiles is the backups directory, a     *)
(* function from the clock reading in a file's name to the file's content; *)
(* backedUp remembers, for each of these names, the in-memory state at the *)
(* last backup() that returned it.  compactTimer is the field of that name *)
(* (the handle setInterval returned last), activeTimers the intervals the  *)
(* runtime still fires, and running the handler that is on the call stack  *)
(* with the part of its work that is still to do.                          *)
(*                                                                         *)
(* JSON values are tagged records: [k |-> "null"], [k |-> "num", n |-> 1], *)
(* [k |-> "arr", n |-> 1] (an array, opaque), [k |-> "obj", o |-> f] (a    *)
(* plain object, f a function from keys to values), [k |-> "id", n |-> i]  *)
(* (the i-th string uuidv4() returned), [k |-> "time", t |-> n] (the ISO   *)
(* string of clock reading n; ISO strings order as their readings) and     *)
(* [k |-> "undefined"] (the JavaScript value undefined, which is not JSON).*)
(* [k |-> "str", s |-> chars] is a string given by its characters and      *)
(* [k |-> "frac", n |-> n] the number n + 1/2.                             *)
(* A document is a function from field names to values.  A collection is   *)
(* the sequence of its <<key, document>> entries in Object.values order    *)
(* (insertion order of the keys).                                          *)
(***************************************************************************)
EXTENDS Integers, Sequences, FiniteSets, TLC

VARIABLES state, dataFile, journalFile, backupFiles, backedUp, clock, nextId, calls,
          batches, call, compactTimer, activeTimers, running

vars == <<state, dataFile, journalFile, backupFiles, backedUp, clock, nextId, calls,
          batches, call, compactTimer, activeTimers, running>>

(***************************************************************************)
(* Bounds of the model.                                                    *)
(***************************************************************************)
MaxIds == 2      \* uuidv4() is called at most MaxIds times
MaxClock == 2    \* clock readings 1..MaxClock
MaxCalls == 3    \* at most MaxCalls handler calls in a run
MaxBulk == 2     \* a bulk batch has at most MaxBulk ops
MaxBatches == 1  \* at most MaxBatches bulk calls in a run
MaxBadLines == 2 \* at most MaxBadLines journal lines that are not entries
MaxImport == 2   \* an import has at most MaxImport lines
MaxTimers == 2   \* setInterval is called at most MaxTimers times

(***************************************************************************)
(* JSON values.                                                            *)
(***************************************************************************)
Undefined == [k |-> "undefined"]
Null == [k |-> "null"]
Num(n) == [k |-> "num", n |-> n]
Arr(n) == [k |-> "arr", n |-> n]
Obj(f) == [k |-> "obj", o |-> f]
IdStr(i) == [k |-> "id", n |-> i]
Time(t) == [k |-> "time", t |-> t]
Str(s) == [k |-> "str", s |-> s]      \* a string, as the sequence of its characters
Frac(n) == [k |-> "frac", n |-> n]    \* the number n + 1/2
EmptyObj == [x \in {} |-> Null]

Collections == {"books", "tags"}

ReservedKeys == {"_id", "_createdAt", "_updatedAt"}

isObject(v) == v.k = "obj"

\* { ...a, ...b }
Spread(a, b) ==
  [key \in DOMAIN a \cup DOMAIN b |-> IF key \in DOMAIN b THEN b[key] ELSE a[key]]

\* a merge that does not recurse: { ...a, ...b }
deepMerge_shallow(a, b) == Spread(a, b)

RECURSIVE deepMerge(_, _)
deepMerge(a, b) ==
  LET keep == {key \in DOMAIN b : b[key] # Undefined \/ key \in DOMAIN a}
  IN  [key \in DOMAIN a \cup keep |->
         IF key \notin DOMAIN b THEN a[key]
         ELSE IF isObject(b[key]) /\ key \in DOMAIN a /\ isObject(a[key])
              THEN Obj(deepMerge(a[key].o, b[key].o))
              ELSE IF b[key] # Undefined THEN b[key] ELSE a[key]]

(***************************************************************************)
(* JSON.stringify followed by JSON.parse: properties whose value is        *)
(* undefined are not serialized.  A file's text is identified with the     *)
(* JSON value it denotes.                                                  *)
(***************************************************************************)
RECURSIVE JSONobject(_)
JSONobject(f) ==
  [key \in {x \in DOMAIN f : f[x] # Undefined} |->
     IF isObject(f[key]) THEN Obj(JSONobject(f[key].o)) ELSE f[key]]

JSONcollection(col) == [i \in 1..Len(col) |-> [id |-> col[i].id, doc |-> JSONobject(col[i].doc)]]

JSONstate(st) ==
  [collections |-> [c \in DOMAIN st.collections |-> JSONcollection(st.collections[c])]]

JSONentry(e) ==
  IF e.type = "delete" THEN e ELSE [e EXCEPT !.doc = JSONobject(e.doc)]

(***************************************************************************)
(* Collections: Record<string, Document> in key insertion order.           *)
(***************************************************************************)
HasKey(col, id) == \E i \in 1..Len(col) : col[i].id = id

At(col, id) == col[CHOOSE i \in 1..Len(col) : col[i].id = id].doc

\* col[id] = doc
SetKey(col, id, doc) ==
  IF HasKey(col, id)
  THEN [i \in 1..Len(col) |-> IF col[i].id = id THEN [id |-> id, doc |-> doc] ELSE col[i]]
  ELSE Append(col, [id |-> id, doc |-> doc])

\* delete col[id]
DeleteKey(col, id) == SelectSeq(col, LAMBDA e : e.id # id)

\* this.state.collections[collection] || {}
ColOrEmpty(st, collection) ==
  IF collection \in DOMAIN st.collections THEN st.collections[collection] ELSE <<>>

\* (this.state.collections[collection] ||= {})[id] = doc
SetDoc(st, collection, id, doc) ==
  [collections |->
     (collection :> SetKey(ColOrEmpty(st, collection), id, doc)) @@ st.collections]

EmptyState == [collections |-> [c \in {} |-> <<>>]]

\* a lookup that answers a missing key with an empty document
get_orEmpty(st, collection, id) ==
  IF HasKey(ColOrEmpty(st, collection), id)
  THEN At(ColOrEmpty(st, collection), id)
  ELSE EmptyObj

get(st, collection, id) ==
  IF HasKey(ColOrEmpty(st, collection), id)
  THEN At(ColOrEmpty(st, collection), id)
  ELSE Undefined

(***************************************************************************)
(* query.  An option that is absent is Undefined.  A filter text that      *)
(* parses as the object f is [k |-> "filter", o |-> f]; a sort text        *)
(* "field" or "field:dir" is [field |-> .., dir |-> ..]; the number n as   *)
(* offset or limit is Num(n).                                              *)
(***************************************************************************)
Field(doc, key) == IF key \in DOMAIN doc THEN doc[key] ELSE Undefined

\* x === v, v parsed from the filter text: objects and arrays are fresh references
StrictEq(x, v) == x = v /\ x.k \notin {"obj", "arr"}

(***************************************************************************)
(* Texts.  A text is the sequence of its characters; CodeUnits lists the   *)
(* characters of the model in the order of their UTF-16 code units.        *)
(***************************************************************************)
CodeUnits ==
  <<"\"", ",", "-", ".", "0", "1", "2", "3", "4", "5", "6", "7", "8", "9", ":",
    "A", "D", "F", "T", "Z", "_", "a", "b", "c", "d", "e", "f", "i", "l", "n",
    "o", "p", "q", "r", "t", "u", "x", "y", "z", "{", "}">>

Ord(c) == CHOOSE i \in 1..Len(CodeUnits) : CodeUnits[i] = c

Digit(n) == CodeUnits[n + 5]

\* String.prototype.toLowerCase
toLowerCase(s) ==
  [i \in 1..Len(s) |->
     CASE s[i] = "A" -> "a" [] s[i] = "D" -> "d" [] s[i] = "F" -> "f"
       [] s[i] = "T" -> "t" [] s[i] = "Z" -> "z" [] OTHER -> s[i]]

\* String.prototype.includes
includes(s, t) ==
  \E i \in 0..(Len(s) - Len(t)) : SubSeq(s, i + 1, i + Len(t)) = t

\* the characters of a property name
KeyChars(key) ==
  CASE key = "title" -> <<"t", "i", "t", "l", "e">>
    [] key = "_id" -> <<"_", "i", "d">>
    [] key = "_createdAt" -> <<"_", "c", "r", "e", "a", "t", "e", "d", "A", "t">>
    [] key = "_updatedAt" -> <<"_", "u", "p", "d", "a", "t", "e", "d", "A", "t">>
    [] OTHER -> <<key>>

\* the order of the properties of a document: the caller's, then the three
\* that insert adds
KeyOrder == <<"a", "b", "x", "y", "p", "q", "title", "n", "_id", "_createdAt", "_updatedAt">>

\* the text of uuid i (hexadecimal digits and dashes) and of clock reading t
\* (an ISO time)
UuidChars(i) == <<"0", "-", "4", "-", Digit(i)>>

ISOChars(t) == <<"2", "0", "-", Digit(t), "T", "0", ":", "0", ".", "0", "Z">>

Quoted(s) == <<"\"">> \o s \o <<"\"">>

\* JSON.stringify of a value
RECURSIVE stringify(_)
stringify(v) ==
  IF v.k = "num" THEN <<Digit(v.n)>>
  ELSE IF v.k = "str" THEN Quoted(v.s)
  ELSE IF v.k = "id" THEN Quoted(UuidChars(v.n))
  ELSE IF v.k = "time" THEN Quoted(ISOChars(v.t))
  ELSE IF v.k = "obj"
  THEN LET keys == SelectSeq(KeyOrder,
                             LAMBDA key : key \in DOMAIN v.o /\ v.o[key] # Undefined)
           Members[i \in 0..Len(keys)] ==
             IF i = 0 THEN <<>>
             ELSE Members[i - 1] \o (IF i = 1 THEN <<>> ELSE <<",">>)
                    \o Quoted(KeyChars(keys[i])) \o <<":">> \o stringify(v.o[keys[i]])
       IN  <<"{">> \o Members[Len(keys)] \o <<"}">>
  ELSE <<"n", "u", "l", "l">>   \* null; the documents queried hold no arrays

\* q is absent, or the text of an object (k = "filter"), of a number
\* (k = "number") or a text JSON.parse throws on (k = "text"); Object.entries
\* of a number is empty
filterByQuery(doc, q) ==
  IF q = Undefined THEN TRUE
  ELSE IF q.k = "filter"
  THEN \A key \in DOMAIN q.o : StrictEq(Field(doc, key), q.o[key])
  ELSE IF q.k = "number" THEN TRUE
  ELSE includes(toLowerCase(stringify(Obj(doc))), toLowerCase(q.s))

\* a sort that takes every direction for ascending
parseSort_alwaysAscending(sort) ==
  IF sort = Undefined THEN Undefined
  ELSE [field |-> sort.field, dir |-> 1]

parseSort(sort) ==
  IF sort = Undefined THEN Undefined
  ELSE [field |-> sort.field, dir |-> IF sort.dir = "desc" THEN -1 ELSE 1]

\* s > t for two strings: by code units, a proper prefix comes first
GtStr(s, t) ==
  \E i \in 1..Len(s) :
     /\ i - 1 <= Len(t)
     /\ SubSeq(s, 1, i - 1) = SubSeq(t, 1, i - 1)
     /\ i > Len(t) \/ Ord(s[i]) > Ord(t[i])

\* va > vb in JavaScript, for numbers, strings, null, undefined, ISO strings and
\* plain objects ("[object Object]" sorts after every ISO string); fields
\* holding uuid strings or arrays are not sort keys of the model.
JSgt(va, vb) ==
  IF va.k = "num" /\ vb.k = "num" THEN va.n > vb.n
  ELSE IF va.k = "str" /\ vb.k = "str" THEN GtStr(va.s, vb.s)
  ELSE IF va.k = "time" /\ vb.k = "time" THEN va.t > vb.t
  ELSE IF va.k = "num" /\ vb.k = "null" THEN va.n > 0
  ELSE IF va.k = "null" /\ vb.k = "num" THEN 0 > vb.n
  ELSE va.k = "obj" /\ vb.k = "time"

compare(a, b, sort) ==
  LET va == Field(a, sort.field)
      vb == Field(b, sort.field)
  IN  IF va = vb /\ va.k \notin {"obj", "arr"} THEN 0
      ELSE IF JSgt(va, vb) THEN sort.dir ELSE -sort.dir

\* Array.prototype.sort: stable; each item goes after the items it does not precede
RECURSIVE sorted(_, _)
sorted(items, sort) ==
  IF Len(items) <= 1 THEN items
  ELSE LET front == sorted(SubSeq(items, 1, Len(items) - 1), sort)
           x == items[Len(items)]
           after == {i \in 1..Len(front) : compare(x, front[i], sort) < 0}
           at == IF after = {} THEN Len(front) + 1
                 ELSE CHOOSE i \in after : \A j \in after : i <= j
       IN  SubSeq(front, 1, at - 1) \o <<x>> \o SubSeq(front, at, Len(front))

Min(a, b) == IF a < b THEN a ELSE b

Max(a, b) == IF a > b THEN a ELSE b

\* a number as a count of halves
Halves(v) == IF v.k = "frac" THEN 2 * v.n + 1 ELSE 2 * v.n

\* ToIntegerOrInfinity of h halves: truncation toward zero
ToInteger(h) == IF h >= 0 THEN h \div 2 ELSE -((-h) \div 2)

\* the index slice makes of an argument: a negative one counts from the end
RelativeIndex(h, len) ==
  LET i == ToInteger(h)
  IN  IF i < 0 THEN Max(len + i, 0) ELSE Min(i, len)

\* a slice that runs to the end of the array
slice_ignoringEnd(items, start, end) ==
  SubSeq(items, RelativeIndex(start, Len(items)) + 1, Len(items))

\* items.slice(start, end), start and end in halves
slice(items, start, end) ==
  LET from == RelativeIndex(start, Len(items))
      to == RelativeIndex(end, Len(items))
  IN  IF from >= to THEN <<>> ELSE SubSeq(items, from + 1, to)

query(st, collection, opts) ==
  LET col == ColOrEmpty(st, collection)
      values == [i \in 1..Len(col) |-> col[i].doc]
      items == SelectSeq(values, LAMBDA d : filterByQuery(d, opts.q))
      sort == parseSort(opts.sort)
      ordered == IF sort = Undefined THEN items ELSE sorted(items, sort)
      offset == IF opts.offset = Undefined THEN 0 ELSE Halves(opts.offset)
      limit == IF opts.limit = Undefined THEN 200 ELSE Halves(opts.limit)
  IN  [total |-> Len(items), items |-> slice(ordered, offset, offset + limit)]

(***************************************************************************)
(* Journal replay.                                                         *)
(***************************************************************************)
\* the key a document's _id names: uuid string i is key i
KeyOf(v) == IF v.k = "id" THEN v.n ELSE 0

applyJournal(st, entry) ==
  LET col == ColOrEmpty(st, entry.collection)
      made == [collections |-> (entry.collection :> col) @@ st.collections]
  IN  IF entry.type = "insert"
      THEN SetDoc(st, entry.collection, KeyOf(entry.doc["_id"]), entry.doc)
      ELSE IF entry.type = "update"
      THEN IF ~HasKey(col, entry.id) THEN made
           ELSE SetDoc(st, entry.collection, entry.id,
                       deepMerge(At(col, entry.id), entry.doc))
      ELSE [collections |->
              (entry.collection :> DeleteKey(col, entry.id)) @@ st.collections]

\* a file, or a journal line, whose text JSON.parse throws on
Garbage == [k |-> "garbage"]

\* a journal line with nothing but white space
BlankLine == [k |-> "blank"]

\* a parsed value that has a collections property
isState(v) == "collections" \in DOMAIN v

\* this.state.collections[collection] throws a TypeError when this.state has
\* no collections property
applyJournalThrows(st, entry) == ~isState(st)

\* the state after one line of the loop in load(): a blank line is passed
\* over, and the catch swallows what JSON.parse or applyJournal throws
replayLine(st, line) ==
  IF line = BlankLine \/ line = Garbage \/ applyJournalThrows(st, line)
  THEN st
  ELSE applyJournal(st, line)

\* a loop that ends at the first line JSON.parse throws on
remaining_noneAfterBadLine(lines) ==
  IF Head(lines) = Garbage THEN <<>> ELSE Tail(lines)

\* for (const line of lines): the lines still to come
remaining(lines) == Tail(lines)

RECURSIVE replay(_, _)
replay(st, lines) ==
  IF lines = <<>> THEN st
  ELSE replay(replayLine(st, Head(lines)), remaining(lines))

NoFile == [k |-> "nofile"]

\* the backups directory before any backup: no file name has a content
NoFiles == [stamp \in {} |-> NoFile]

\* the fallback when the file is absent or JSON.parse throws, else the parsed
\* value whatever its shape
readJsonFile(file, fallback) ==
  IF file = NoFile \/ file = Garbage THEN fallback ELSE file

loaded(snapshotFile, journal) == replay(readJsonFile(snapshotFile, EmptyState), journal)


(***************************************************************************)
(* Journal writes.                                                         *)
(***************************************************************************)
writeJournal(journal, entry) == Append(journal, JSONentry(entry))

\* a batch write that appends the last entry only
writeJournalBatch_lastOnly(journal, entries) ==
  IF Len(entries) = 0 THEN journal
  ELSE Append(journal, JSONentry(entries[Len(entries)]))

writeJournalBatch(journal, entries) ==
  IF Len(entries) = 0 THEN journal
  ELSE journal \o [i \in 1..Len(entries) |-> JSONentry(entries[i])]

(***************************************************************************)
(* The documents the mutation handlers build.                              *)
(***************************************************************************)
Reserved(id, createdAt, updatedAt) ==
  ("_id" :> id) @@ ("_createdAt" :> createdAt) @@ ("_updatedAt" :> updatedAt)

\* the reserved fields spread first, so that the caller's fields win
insertFull_callerWins(doc, id, at) == Spread(Reserved(IdStr(id), at, at), doc)

\* { ...doc, _id: uuidv4(), _createdAt: now, _updatedAt: now }
insertFull(doc, id, at) == Spread(doc, Reserved(IdStr(id), at, at))

\* { ...existing, ...doc, _updatedAt: now }
updateDoc(existing, doc, at) ==
  Spread(Spread(existing, doc), "_updatedAt" :> at)

\* deepMerge(existing, { ...doc, _updatedAt: now })
patchDoc(existing, doc, at) ==
  deepMerge(existing, Spread(doc, "_updatedAt" :> at))

(***************************************************************************)
(* Inputs of the handlers.                                                 *)
(***************************************************************************)
Ids == 1..MaxIds

now == Time(clock)

\* a caller-chosen string in the place of a uuid
ForeignId == IdStr(0)

DocInputs ==
  { "a" :> Obj("x" :> Num(1)),
    "a" :> Obj("y" :> Num(2)),
    ("b" :> Num(1)) @@ Reserved(ForeignId, Time(MaxClock), Time(MaxClock)) }

\* the batches' ops: updates and patches name the first id, deletes any id
BulkOpInputs ==
  { [op |-> "insert", doc |-> "a" :> Obj("x" :> Num(1))],
    [op |-> "update", id |-> 1, doc |-> "a" :> Obj("y" :> Num(2))],
    [op |-> "patch", id |-> 1, doc |-> "a" :> Obj("y" :> Num(2))] }
    \cup {[op |-> "delete", id |-> i] : i \in Ids}

BulkInputs == UNION {[1..n -> BulkOpInputs] : n \in 0..MaxBulk}

(***************************************************************************)
(* Handlers.                                                               *)
(***************************************************************************)
\* compactTimer before the first setInterval; the handles are 1, 2, ...
NoTimer == 0

\* no handler is on the call stack
Idle == [op |-> "idle"]

Init ==
  /\ state = EmptyState
  /\ dataFile = NoFile
  /\ journalFile = <<>>
  /\ backupFiles = NoFiles
  /\ backedUp = NoFiles
  /\ compactTimer = NoTimer
  /\ activeTimers = {}
  /\ running = Idle
  /\ clock = 1
  /\ nextId = 1
  /\ calls = 0
  /\ batches = 0
  /\ call = [op |-> "new"]

\* the clock advances between calls
Tick ==
  /\ clock < MaxClock
  /\ clock' = clock + 1
  /\ call' = [op |-> "tick"]
  /\ UNCHANGED <<state, dataFile, journalFile, nextId, calls, batches, backupFiles, backedUp,
                compactTimer, activeTimers, running>>

load ==
  /\ calls < MaxCalls
  /\ state' = loaded(dataFile, journalFile)
  /\ call' = [op |-> "load"]
  /\ calls' = calls + 1
  /\ UNCHANGED <<dataFile, journalFile, clock, nextId, batches, backupFiles, backedUp,
                compactTimer, activeTimers, running>>

insert(collection, doc) ==
  LET full == insertFull(doc, nextId, now)
  IN  /\ calls < MaxCalls
      /\ nextId <= MaxIds
      /\ state' = SetDoc(state, collection, KeyOf(full["_id"]), full)
      /\ journalFile' = writeJournal(journalFile,
                          [type |-> "insert", collection |-> collection, doc |-> full])
      /\ nextId' = nextId + 1
      /\ call' = [op |-> "insert", collection |-> collection, doc |-> doc, ret |-> full]
      /\ calls' = calls + 1
      /\ UNCHANGED <<dataFile, clock, batches, backupFiles, backedUp,
                compactTimer, activeTimers, running>>

update(collection, id, doc) ==
  LET existing == get(state, collection, id)
      updated == updateDoc(existing, doc, now)
  IN  /\ calls < MaxCalls
      /\ calls' = calls + 1
      /\ UNCHANGED <<dataFile, clock, nextId, batches, backupFiles, backedUp,
                compactTimer, activeTimers, running>>
      /\ IF existing = Undefined
         THEN /\ call' = [op |-> "update", collection |-> collection, id |-> id,
                          doc |-> doc, ret |-> Undefined]
              /\ UNCHANGED <<state, journalFile>>
         ELSE /\ state' = SetDoc(state, collection, id, updated)
              /\ journalFile' = writeJournal(journalFile,
                                  [type |-> "update", collection |-> collection,
                                   id |-> id, doc |-> updated])
              /\ call' = [op |-> "update", collection |-> collection, id |-> id,
                          doc |-> doc, ret |-> updated]

patch(collection, id, doc) ==
  LET existing == get(state, collection, id)
      patched == patchDoc(existing, doc, now)
  IN  /\ calls < MaxCalls
      /\ calls' = calls + 1
      /\ UNCHANGED <<dataFile, clock, nextId, batches, backupFiles, backedUp,
                compactTimer, activeTimers, running>>
      /\ IF existing = Undefined
         THEN /\ call' = [op |-> "patch", collection |-> collection, id |-> id,
                          doc |-> doc, ret |-> Undefined]
              /\ UNCHANGED <<state, journalFile>>
         ELSE /\ state' = SetDoc(state, collection, id, patched)
              /\ journalFile' = writeJournal(journalFile,
                                  [type |-> "update", collection |-> collection,
                                   id |-> id, doc |-> patched])
              /\ call' = [op |-> "patch", collection |-> collection, id |-> id,
                          doc |-> doc, ret |-> patched]

\* delete col[id] on the collection object held by the state
deleteDoc(st, collection, id) ==
  [collections |->
     [c \in DOMAIN st.collections |->
        IF c = collection THEN DeleteKey(st.collections[c], id) ELSE st.collections[c]]]

delete(collection, id) ==
  LET col == ColOrEmpty(state, collection)
  IN  /\ calls < MaxCalls
      /\ calls' = calls + 1
      /\ UNCHANGED <<dataFile, clock, nextId, batches, backupFiles, backedUp,
                compactTimer, activeTimers, running>>
      /\ IF ~HasKey(col, id)
         THEN /\ call' = [op |-> "delete", collection |-> collection, id |-> id,
                          ret |-> FALSE]
              /\ UNCHANGED <<state, journalFile>>
         ELSE /\ state' = deleteDoc(state, collection, id)
              /\ journalFile' = writeJournal(journalFile,
                                  [type |-> "delete", collection |-> collection, id |-> id])
              /\ call' = [op |-> "delete", collection |-> collection, id |-> id,
                          ret |-> TRUE]

snapshot(st) == JSONstate(st)

\* a compaction that reloads the state it has just written
compact_reloading ==
  /\ calls < MaxCalls
  /\ calls' = calls + 1
  /\ dataFile' = snapshot(state)
  /\ journalFile' = <<>>
  /\ state' = loaded(snapshot(state), journalFile)
  /\ call' = [op |-> "compact", threw |-> FALSE]
  /\ UNCHANGED <<clock, nextId, batches, backupFiles, backedUp,
                compactTimer, activeTimers, running>>

compact ==
  /\ calls < MaxCalls
  /\ calls' = calls + 1
  /\ dataFile' = snapshot(state)
  /\ journalFile' = <<>>
  /\ call' = [op |-> "compact", threw |-> FALSE]
  /\ UNCHANGED <<state, clock, nextId, batches, backupFiles, backedUp,
                compactTimer, activeTimers, running>>

(***************************************************************************)
(* bulk: the loop over the ops, as a fold.  A run r is the handler's local *)
(* state: r.state (this.state), r.results, r.journalBatch, r.nextId (the   *)
(* uuids drawn so far) and r.threw (an op threw "not found").              *)
(***************************************************************************)
bulkOp(r, collection, op, at) ==
  IF op.op = "insert"
  THEN LET full == insertFull(op.doc, r.nextId, at)
       IN  [r EXCEPT !.state = SetDoc(r.state, collection, KeyOf(full["_id"]), full),
                     !.results = Append(r.results, full),
                     !.journalBatch = Append(r.journalBatch,
                        [type |-> "insert", collection |-> collection, doc |-> full]),
                     !.nextId = r.nextId + 1]
  ELSE IF op.op = "update"
  THEN LET existing == get(r.state, collection, op.id)
           updated == updateDoc(existing, op.doc, at)
       IN  IF existing = Undefined THEN [r EXCEPT !.threw = TRUE]
           ELSE [r EXCEPT !.state = SetDoc(r.state, collection, op.id, updated),
                          !.results = Append(r.results, updated),
                          !.journalBatch = Append(r.journalBatch,
                             [type |-> "update", collection |-> collection,
                              id |-> op.id, doc |-> updated])]
  ELSE IF op.op = "patch"
  THEN LET existing == get(r.state, collection, op.id)
           patched == patchDoc(existing, op.doc, at)
       IN  IF existing = Undefined THEN [r EXCEPT !.threw = TRUE]
           ELSE [r EXCEPT !.state = SetDoc(r.state, collection, op.id, patched),
                          !.results = Append(r.results, patched),
                          !.journalBatch = Append(r.journalBatch,
                             [type |-> "update", collection |-> collection,
                              id |-> op.id, doc |-> patched])]
  ELSE IF ~HasKey(ColOrEmpty(r.state, collection), op.id)
       THEN [r EXCEPT !.threw = TRUE]
       ELSE [r EXCEPT !.state = deleteDoc(r.state, collection, op.id),
                      !.results = Append(r.results, [deleted |-> op.id]),
                      !.journalBatch = Append(r.journalBatch,
                         [type |-> "delete", collection |-> collection, id |-> op.id])]

RECURSIVE bulkLoop(_, _, _, _)
bulkLoop(r, collection, ops, at) ==
  IF ops = <<>> \/ r.threw THEN r
  ELSE bulkLoop(bulkOp(r, collection, Head(ops), at), collection, Tail(ops), at)

\* a catch block that rethrows without restoring the state
rollback_keepState(snapshotText, st) == st

\* catch: this.state = JSON.parse(snapshot)
rollback(snapshotText, st) == snapshotText

Inserts(ops) == Cardinality({i \in 1..Len(ops) : ops[i].op = "insert"})

bulk(collection, ops) ==
  LET snapshotText == JSONstate(state)
      r == bulkLoop([state |-> state, results |-> <<>>, journalBatch |-> <<>>,
                     nextId |-> nextId, threw |-> FALSE], collection, ops, now)
  IN  /\ calls < MaxCalls
      /\ batches < MaxBatches
      /\ nextId + Inserts(ops) <= MaxIds + 1
      /\ calls' = calls + 1
      /\ batches' = batches + 1
      /\ nextId' = r.nextId
      /\ UNCHANGED <<dataFile, clock, backupFiles, backedUp,
                compactTimer, activeTimers, running>>
      /\ IF r.threw
         THEN /\ state' = rollback(snapshotText, r.state)
              /\ UNCHANGED journalFile
              /\ call' = [op |-> "bulk", collection |-> collection, ops |-> ops,
                          threw |-> TRUE]
         ELSE /\ state' = r.state
              /\ journalFile' = writeJournalBatch(journalFile, r.journalBatch)
              /\ call' = [op |-> "bulk", collection |-> collection, ops |-> ops,
                          threw |-> FALSE, results |-> r.results]

Next ==
  \/ Tick
  \/ load
  \/ compact
  \/ \E c \in Collections, d \in DocInputs : insert(c, d)
  \/ \E c \in Collections, i \in Ids, d \in DocInputs : update(c, i, d)
  \/ \E c \in Collections, i \in Ids, d \in DocInputs : patch(c, i, d)
  \/ \E c \in Collections, i \in Ids : delete(c, i)

Spec == Init /\ [][Next]_vars

\* the batch handler, over the states that inserts build
NextBulk ==
  \/ \E c \in Collections : insert(c, "a" :> Obj("x" :> Num(1)))
  \/ \E ops \in BulkInputs : bulk("books", ops)

SpecBulk == Init /\ [][NextBulk]_vars

\* patch, over the states one insert builds
MergeDocs ==
  { "a" :> Obj("x" :> Num(1)),
    "a" :> Obj("y" :> Num(2)),
    "a" :> Null,
    "a" :> Arr(1),
    "a" :> Obj("x" :> Obj("p" :> Num(1))),
    "a" :> Obj("x" :> Obj("q" :> Num(2))),
    ("a" :> Num(3)) @@ ("b" :> Obj(EmptyObj)),
    "b" :> Obj("z" :> Arr(2)) }

InitMerge ==
  \E d \in MergeDocs :
     LET full == insertFull(d, 1, Time(1))
     IN  /\ state = SetDoc(EmptyState, "books", 1, full)
         /\ dataFile = NoFile
         /\ journalFile = writeJournal(<<>>,
                            [type |-> "insert", collection |-> "books", doc |-> full])
         /\ backupFiles = NoFiles
         /\ backedUp = NoFiles
         /\ compactTimer = NoTimer
         /\ activeTimers = {}
         /\ running = Idle
  /\ compactTimer = NoTimer
  /\ activeTimers = {}
  /\ running = Idle
         /\ clock = 1
         /\ nextId = 2
         /\ calls = 1
         /\ batches = 0
         /\ call = [op |-> "insert", collection |-> "books", doc |-> d, ret |-> full]

NextMerge ==
  \/ Tick
  \/ \E d \in MergeDocs : patch("books", 1, d)

SpecMerge == InitMerge /\ [][NextMerge]_vars

(***************************************************************************)
(* Backups, restore, import of a whole state, and a compaction whose file  *)
(* write throws.                                                           *)
(***************************************************************************)
\* zlib.gzipSync(Buffer.from(json))
gzipSync(json) == [gz |-> json]

\* zlib.gunzipSync(buf).toString('utf-8')
gunzipSync(buf) == buf.gz

\* a backup that copies the snapshot file instead of the state in memory
backupContent_ofSnapshotFile(st, file) ==
  gzipSync(readJsonFile(file, EmptyState))

\* gzipSync(Buffer.from(JSON.stringify(this.state)))
backupContent(st, file) == gzipSync(JSONstate(st))

\* backup-${stamp}.json.gz: the name is the clock reading
backup ==
  /\ backupFiles' = (clock :> backupContent(state, dataFile)) @@ backupFiles
  /\ backedUp' = (clock :> state) @@ backedUp
  /\ call' = [op |-> "backup", ret |-> clock]
  /\ UNCHANGED <<state, dataFile, journalFile, clock, nextId, calls, batches,
                 compactTimer, activeTimers, running>>

restore(file) ==
  /\ calls < MaxCalls
  /\ calls' = calls + 1
  /\ UNCHANGED <<clock, nextId, batches, backupFiles, backedUp,
                compactTimer, activeTimers, running>>
  /\ IF file \notin DOMAIN backupFiles
     THEN \* fs.readFileSync throws
          /\ call' = [op |-> "restore", file |-> file, threw |-> TRUE]
          /\ UNCHANGED <<state, dataFile, journalFile>>
     ELSE LET restored == gunzipSync(backupFiles[file])
          IN  /\ state' = restored
              /\ dataFile' = snapshot(restored)
              /\ journalFile' = <<>>
              /\ call' = [op |-> "restore", file |-> file, threw |-> FALSE]

importJSON(st) ==
  /\ calls < MaxCalls
  /\ calls' = calls + 1
  /\ state' = st
  /\ dataFile' = snapshot(st)
  /\ journalFile' = <<>>
  /\ call' = [op |-> "importJSON", threw |-> FALSE]
  /\ UNCHANGED <<clock, nextId, batches, backupFiles, backedUp,
                compactTimer, activeTimers, running>>

\* a compaction that truncates the journal before it writes the snapshot
compactThrows_truncateFirst(step) ==
  /\ calls < MaxCalls
  /\ calls' = calls + 1
  /\ journalFile' = <<>>
  /\ call' = [op |-> "compact", threw |-> TRUE, step |-> step]
  /\ UNCHANGED <<state, dataFile, clock, nextId, batches, backupFiles, backedUp,
                compactTimer, activeTimers, running>>

\* atomicWriteFileSync throws (writeFileSync of the temporary file or renameSync
\* fails, the target file is as before): in snapshot(), or in the truncation
compactThrows(step) ==
  /\ calls < MaxCalls
  /\ calls' = calls + 1
  /\ dataFile' = IF step = "snapshot" THEN dataFile ELSE snapshot(state)
  /\ call' = [op |-> "compact", threw |-> TRUE, step |-> step]
  /\ UNCHANGED <<state, journalFile, clock, nextId, batches, backupFiles, backedUp,
                compactTimer, activeTimers, running>>

ImportInputs ==
  { EmptyState,
    SetDoc(EmptyState, "tags", 0,
           ("b" :> Num(1)) @@ Reserved(ForeignId, Time(1), Time(1))) }

NextBackup ==
  \/ Tick
  \/ \E d \in {"a" :> Obj("x" :> Num(1)), "b" :> Num(1)} : insert("books", d)
  \/ patch("books", 1, "a" :> Obj("y" :> Num(2)))
  \/ backup
  \/ \E file \in 1..MaxClock : restore(file)
  \/ \E st \in ImportInputs : importJSON(st)
  \/ compact
  \/ \E step \in {"snapshot", "journal"} : compactThrows(step)

SpecBackup == Init /\ [][NextBackup]_vars

(***************************************************************************)
(* Recovery from files that were damaged outside the engine: lines of the  *)
(* journal that do not parse, a snapshot file that is absent, does not     *)
(* parse, or parses to a value that is not a database state.  A handler    *)
(* called on a state without collections throws before it changes          *)
(* anything, so the handlers are taken on well-formed states only.         *)
(***************************************************************************)
BadLines(journal) ==
  {i \in 1..Len(journal) : journal[i] \in {Garbage, BlankLine}}

damageJournal(i, line) ==
  /\ Cardinality(BadLines(journalFile)) < MaxBadLines
  /\ journalFile' = SubSeq(journalFile, 1, i - 1) \o <<line>>
                      \o SubSeq(journalFile, i, Len(journalFile))
  /\ call' = [op |-> "damageJournal"]
  /\ UNCHANGED <<state, dataFile, clock, nextId, calls, batches, backupFiles, backedUp,
                compactTimer, activeTimers, running>>

\* {} and null: texts that parse, to a value without collections
WrongShapes == {Obj(EmptyObj), Null}

damageSnapshot(file) ==
  /\ dataFile # file
  /\ dataFile' = file
  /\ call' = [op |-> "damageSnapshot"]
  /\ UNCHANGED <<state, journalFile, clock, nextId, calls, batches, backupFiles, backedUp,
                compactTimer, activeTimers, running>>

NextLoad ==
  \/ isState(state) /\ insert("books", "a" :> Obj("x" :> Num(1)))
  \/ isState(state) /\ patch("books", 1, "a" :> Obj("y" :> Num(2)))
  \/ isState(state) /\ delete("books", 1)
  \/ isState(state) /\ compact
  \/ load
  \/ \E i \in 1..(Len(journalFile) + 1), line \in {Garbage, BlankLine} :
        damageJournal(i, line)
  \/ \E file \in {NoFile, Garbage} \cup WrongShapes : damageSnapshot(file)

SpecLoad == Init /\ [][NextLoad]_vars

(***************************************************************************)
(* Queries: on the engine, and through the route GET /db/:collection,      *)
(* which turns the limit and offset of the query string into numbers.      *)
(***************************************************************************)
Dune == <<"D", "u", "n", "e">>

QueryDocs ==
  { ("title" :> Str(Dune)) @@ ("n" :> Num(2)),
    ("title" :> Str(<<"F", "o", "u", "n", "d", "a", "t", "i", "o", "n">>)) @@ ("n" :> Num(1)),
    ("title" :> Str(toLowerCase(Dune))) @@ ("n" :> Num(2)) }

Filters ==
  {Undefined,
   [k |-> "filter", o |-> "n" :> Num(2)],
   [k |-> "filter", o |-> ("title" :> Str(toLowerCase(Dune))) @@ ("n" :> Num(2))],
   [k |-> "filter", o |-> "p" :> Null],
   [k |-> "text", s |-> Dune],
   [k |-> "number", n |-> 7]}

Sorts == {Undefined} \cup [field : {"title", "n"}, dir : {"asc", "desc"}]

\* <<offset, limit>>
Pagings ==
  {<<Undefined, Undefined>>, <<Num(1), Num(1)>>, <<Undefined, Num(1)>>,
   <<Num(-1), Undefined>>, <<Undefined, Num(-1)>>,
   <<Frac(1), Undefined>>, <<Undefined, Frac(0)>>}

\* every sort and paging, over all documents and over those with n = 2
QueryOpts ==
  {[q |-> q, sort |-> sort, offset |-> paging[1], limit |-> paging[2]] :
     q \in {Undefined, [k |-> "filter", o |-> "n" :> Num(2)]},
     sort \in Sorts, paging \in Pagings}

\* every filter, unsorted, the first page or the second document alone
FilterOpts ==
  {[q |-> q, sort |-> Undefined, offset |-> paging[1], limit |-> paging[2]] :
     q \in Filters, paging \in {<<Undefined, Undefined>>, <<Num(1), Num(1)>>}}

callQuery(collection, opts) ==
  /\ calls < MaxCalls
  /\ calls' = calls + 1
  /\ call' = [op |-> "query", via |-> "engine", collection |-> collection,
              opts |-> opts, threw |-> FALSE, ret |-> query(state, collection, opts)]
  /\ UNCHANGED <<state, dataFile, journalFile, backupFiles, backedUp, clock, nextId,
                 batches, compactTimer, activeTimers, running>>

\* Number.isFinite holds of every number of the model
httpQuery(collection, opts) ==
  LET invalid(x) == x # Undefined /\ Halves(x) < 0
  IN  /\ calls < MaxCalls
      /\ calls' = calls + 1
      /\ call' = IF invalid(opts.limit) \/ invalid(opts.offset)
                 THEN [op |-> "query", via |-> "http", collection |-> collection,
                       opts |-> opts, threw |-> TRUE, ret |-> Undefined]
                 ELSE [op |-> "query", via |-> "http", collection |-> collection,
                       opts |-> opts, threw |-> FALSE,
                       ret |-> query(state, collection, opts)]
      /\ UNCHANGED <<state, dataFile, journalFile, backupFiles, backedUp, clock,
                     nextId, batches, compactTimer, activeTimers, running>>

NextQuery ==
  \/ \E d \in QueryDocs : insert("books", d)
  \/ \E c \in Collections, opts \in QueryOpts : callQuery(c, opts)
  \/ \E opts \in QueryOpts : httpQuery("books", opts)

SpecQuery == Init /\ [][NextQuery]_vars

NextFilter ==
  \/ \E d \in QueryDocs : insert("books", d)
  \/ \E c \in Collections, opts \in FilterOpts : callQuery(c, opts)

SpecFilter == Init /\ [][NextFilter]_vars

(***************************************************************************)
(* Import of NDJSON lines: each line that parses is inserted, and so       *)
(* journalled, at once; a line JSON.parse throws on ends the loop.         *)
(***************************************************************************)
importLine(r, line, at) ==
  IF line = BlankLine THEN r
  ELSE IF line = Garbage THEN [r EXCEPT !.threw = TRUE]
  ELSE LET full == insertFull(line.doc, r.nextId, at)
       IN  [r EXCEPT !.state = SetDoc(r.state, line.collection, KeyOf(full["_id"]), full),
                     !.journal = writeJournal(r.journal,
                        [type |-> "insert", collection |-> line.collection, doc |-> full]),
                     !.nextId = r.nextId + 1]

RECURSIVE importLoop(_, _, _)
importLoop(r, lines, at) ==
  IF lines = <<>> \/ r.threw THEN r
  ELSE importLoop(importLine(r, Head(lines), at), Tail(lines), at)

ImportLines ==
  {[collection |-> "books", doc |-> "a" :> Obj("x" :> Num(1))], Garbage, BlankLine}

ImportInputsNDJSON == UNION {[1..n -> ImportLines] : n \in 1..MaxImport}

Records(lines) == Cardinality({i \in 1..Len(lines) : lines[i] \notin {Garbage, BlankLine}})

importNDJSON(lines) ==
  LET snapshotText == JSONstate(state)
      r == importLoop([state |-> state, journal |-> journalFile, nextId |-> nextId,
                       threw |-> FALSE], lines, now)
  IN  /\ calls < MaxCalls
      /\ nextId + Records(lines) <= MaxIds + 1
      /\ calls' = calls + 1
      /\ nextId' = r.nextId
      /\ journalFile' = r.journal
      /\ state' = IF r.threw THEN rollback(snapshotText, r.state) ELSE r.state
      /\ call' = [op |-> "importNDJSON", lines |-> lines, threw |-> r.threw]
      /\ UNCHANGED <<dataFile, clock, batches, backupFiles, backedUp,
                compactTimer, activeTimers, running>>

NextImport ==
  \/ Tick
  \/ insert("books", "b" :> Num(1))
  \/ \E lines \in ImportInputsNDJSON : importNDJSON(lines)

SpecImport == Init /\ [][NextImport]_vars

(***************************************************************************)
(* Handlers whose journal append throws a storage error (appendFileSync    *)
(* fails and nothing is written).  insert, update, patch and delete change *)
(* this.state before they call writeJournal, outside any try; bulk calls   *)
(* writeJournalBatch inside its try, so its catch runs.                    *)
(***************************************************************************)
insertAppendThrows(collection, doc) ==
  LET full == insertFull(doc, nextId, now)
  IN  /\ calls < MaxCalls
      /\ nextId <= MaxIds
      /\ state' = SetDoc(state, collection, KeyOf(full["_id"]), full)
      /\ nextId' = nextId + 1
      /\ call' = [op |-> "insert", collection |-> collection, doc |-> doc, io |-> TRUE]
      /\ calls' = calls + 1
      /\ UNCHANGED <<dataFile, journalFile, clock, batches, backupFiles, backedUp,
                compactTimer, activeTimers, running>>

updateAppendThrows(collection, id, doc) ==
  LET existing == get(state, collection, id)
  IN  /\ calls < MaxCalls
      /\ existing # Undefined
      /\ state' = SetDoc(state, collection, id, updateDoc(existing, doc, now))
      /\ call' = [op |-> "update", collection |-> collection, id |-> id, doc |-> doc,
                  io |-> TRUE]
      /\ calls' = calls + 1
      /\ UNCHANGED <<dataFile, journalFile, clock, nextId, batches, backupFiles, backedUp,
                compactTimer, activeTimers, running>>

patchAppendThrows(collection, id, doc) ==
  LET existing == get(state, collection, id)
  IN  /\ calls < MaxCalls
      /\ existing # Undefined
      /\ state' = SetDoc(state, collection, id, patchDoc(existing, doc, now))
      /\ call' = [op |-> "patch", collection |-> collection, id |-> id, doc |-> doc,
                  io |-> TRUE]
      /\ calls' = calls + 1
      /\ UNCHANGED <<dataFile, journalFile, clock, nextId, batches, backupFiles, backedUp,
                compactTimer, activeTimers, running>>

deleteAppendThrows(collection, id) ==
  /\ calls < MaxCalls
  /\ HasKey(ColOrEmpty(state, collection), id)
  /\ state' = deleteDoc(state, collection, id)
  /\ call' = [op |-> "delete", collection |-> collection, id |-> id, io |-> TRUE]
  /\ calls' = calls + 1
  /\ UNCHANGED <<dataFile, journalFile, clock, nextId, batches, backupFiles, backedUp,
                compactTimer, activeTimers, running>>

\* every op succeeded and the batch is not empty, so the append is attempted
bulkAppendThrows(collection, ops) ==
  LET snapshotText == JSONstate(state)
      r == bulkLoop([state |-> state, results |-> <<>>, journalBatch |-> <<>>,
                     nextId |-> nextId, threw |-> FALSE], collection, ops, now)
  IN  /\ calls < MaxCalls
      /\ batches < MaxBatches
      /\ nextId + Inserts(ops) <= MaxIds + 1
      /\ ~r.threw
      /\ r.journalBatch # <<>>
      /\ calls' = calls + 1
      /\ batches' = batches + 1
      /\ nextId' = r.nextId
      /\ state' = rollback(snapshotText, r.state)
      /\ call' = [op |-> "bulk", collection |-> collection, ops |-> ops, io |-> TRUE]
      /\ UNCHANGED <<dataFile, journalFile, clock, backupFiles, backedUp,
                compactTimer, activeTimers, running>>

NextAppend ==
  \/ Tick
  \/ insert("books", "a" :> Obj("x" :> Num(1)))
  \/ insertAppendThrows("books", "b" :> Num(1))
  \/ updateAppendThrows("books", 1, "b" :> Num(1))
  \/ patchAppendThrows("books", 1, "a" :> Obj("y" :> Num(2)))
  \/ deleteAppendThrows("books", 1)
  \/ \E ops \in BulkInputs : bulkAppendThrows("books", ops)

SpecAppend == Init /\ [][NextAppend]_vars

(***************************************************************************)
(* Automatic compaction.  setInterval returns a new handle each time; the  *)
(* callback of an interval runs when the interval is active and no handler *)
(* is on the call stack (the handlers are synchronous functions), and it   *)
(* catches what compact() throws.                                          *)
(***************************************************************************)
\* if (this.compactTimer) clearInterval(this.compactTimer)
clearCompactTimer(timers) == timers \ {compactTimer}

\* a start that does not stop the timer it replaces
startAutoCompact_keepingOld ==
  /\ compactTimer < MaxTimers
  /\ running = Idle
  /\ compactTimer' = compactTimer + 1
  /\ activeTimers' = activeTimers \cup {compactTimer + 1}
  /\ call' = [op |-> "startAutoCompact"]
  /\ UNCHANGED <<state, dataFile, journalFile, backupFiles, backedUp, clock, nextId,
                 calls, batches, running>>

startAutoCompact ==
  /\ compactTimer < MaxTimers
  /\ running = Idle
  /\ compactTimer' = compactTimer + 1
  /\ activeTimers' = clearCompactTimer(activeTimers) \cup {compactTimer + 1}
  /\ call' = [op |-> "startAutoCompact"]
  /\ UNCHANGED <<state, dataFile, journalFile, backupFiles, backedUp, clock, nextId,
                 calls, batches, running>>

stopAutoCompact ==
  /\ running = Idle
  /\ activeTimers' = clearCompactTimer(activeTimers)
  /\ call' = [op |-> "stopAutoCompact"]
  /\ UNCHANGED <<state, dataFile, journalFile, backupFiles, backedUp, clock, nextId,
                 calls, batches, compactTimer, running>>

\* an event loop that runs a timer callback while a handler is on the stack
callStackEmpty_always == TRUE

\* a callback starts only when the running handler has returned
callStackEmpty == running = Idle

\* the callback of interval timer: compact() returns, or throws in the
\* snapshot write or in the truncation and the catch logs it
autoCompactTick(timer, outcome) ==
  /\ timer \in activeTimers
  /\ callStackEmpty
  /\ dataFile' = IF outcome = "snapshot" THEN dataFile ELSE snapshot(state)
  /\ journalFile' = IF outcome = "done" THEN <<>> ELSE journalFile
  /\ call' = [op |-> "autoCompact", timer |-> timer, caught |-> outcome # "done"]
  /\ UNCHANGED <<state, backupFiles, backedUp, clock, nextId, calls, batches,
                 compactTimer, activeTimers, running>>

NextTimer ==
  \/ insert("books", "a" :> Obj("x" :> Num(1)))
  \/ patch("books", 1, "a" :> Obj("y" :> Num(2)))
  \/ startAutoCompact
  \/ stopAutoCompact
  \/ \E timer \in 1..MaxTimers, outcome \in {"done", "snapshot", "journal"} :
        autoCompactTick(timer, outcome)

SpecTimer == Init /\ [][NextTimer]_vars

(***************************************************************************)
(* The handlers in steps: running holds what a handler that has assigned   *)
(* into this.state still has to do.  Every handler is a synchronous        *)
(* function, so until it returns nothing else of the process starts.       *)
(***************************************************************************)
\* insert, up to and including its assignment into this.state
insertAssign(collection, doc) ==
  LET full == insertFull(doc, nextId, now)
  IN  /\ callStackEmpty
      /\ calls < MaxCalls
      /\ nextId <= MaxIds
      /\ state' = SetDoc(state, collection, KeyOf(full["_id"]), full)
      /\ nextId' = nextId + 1
      /\ running' = [op |-> "insert",
                     entry |-> [type |-> "insert", collection |-> collection, doc |-> full]]
      /\ calls' = calls + 1
      /\ call' = [op |-> "assign", handler |-> "insert"]
      /\ UNCHANGED <<dataFile, journalFile, backupFiles, backedUp, clock, batches,
                     compactTimer, activeTimers>>

\* patch of an existing document, up to and including its assignment
patchAssign(collection, id, doc) ==
  LET existing == get(state, collection, id)
      patched == patchDoc(existing, doc, now)
  IN  /\ callStackEmpty
      /\ calls < MaxCalls
      /\ existing # Undefined
      /\ state' = SetDoc(state, collection, id, patched)
      /\ running' = [op |-> "patch",
                     entry |-> [type |-> "update", collection |-> collection,
                                id |-> id, doc |-> patched]]
      /\ calls' = calls + 1
      /\ call' = [op |-> "assign", handler |-> "patch"]
      /\ UNCHANGED <<dataFile, journalFile, backupFiles, backedUp, clock, nextId,
                     batches, compactTimer, activeTimers>>

\* this.writeJournal(entry); return
appendAndReturn ==
  /\ running.op \in {"insert", "patch"}
  /\ journalFile' = writeJournal(journalFile, running.entry)
  /\ running' = Idle
  /\ call' = [op |-> "return", handler |-> running.op]
  /\ UNCHANGED <<state, dataFile, backupFiles, backedUp, clock, nextId, calls, batches,
                 compactTimer, activeTimers>>

\* bulk, up to the start of its loop
bulkBegin(collection, ops) ==
  /\ callStackEmpty
  /\ calls < MaxCalls
  /\ batches < MaxBatches
  /\ nextId + Inserts(ops) <= MaxIds + 1
  /\ running' = [op |-> "bulk", collection |-> collection, ops |-> ops,
                 snapshotText |-> JSONstate(state), results |-> <<>>,
                 journalBatch |-> <<>>, threw |-> FALSE]
  /\ calls' = calls + 1
  /\ batches' = batches + 1
  /\ call' = [op |-> "assign", handler |-> "bulk"]
  /\ UNCHANGED <<state, dataFile, journalFile, backupFiles, backedUp, clock, nextId,
                 compactTimer, activeTimers>>

\* one turn of the loop of bulk
bulkStep ==
  /\ running.op = "bulk"
  /\ ~running.threw
  /\ running.ops # <<>>
  /\ LET r == bulkOp([state |-> state, results |-> running.results,
                      journalBatch |-> running.journalBatch, nextId |-> nextId,
                      threw |-> FALSE],
                     running.collection, Head(running.ops), now)
     IN  /\ state' = r.state
         /\ nextId' = r.nextId
         /\ running' = [running EXCEPT !.ops = Tail(running.ops),
                                       !.results = r.results,
                                       !.journalBatch = r.journalBatch,
                                       !.threw = r.threw]
  /\ call' = [op |-> "assign", handler |-> "bulk"]
  /\ UNCHANGED <<dataFile, journalFile, backupFiles, backedUp, clock, calls, batches,
                 compactTimer, activeTimers>>

\* the end of bulk: the batch is appended, or the catch restores the state
bulkEnd ==
  /\ running.op = "bulk"
  /\ running.threw \/ running.ops = <<>>
  /\ state' = IF running.threw THEN rollback(running.snapshotText, state) ELSE state
  /\ journalFile' = IF running.threw THEN journalFile
                    ELSE writeJournalBatch(journalFile, running.journalBatch)
  /\ running' = Idle
  /\ call' = [op |-> "return", handler |-> "bulk"]
  /\ UNCHANGED <<dataFile, backupFiles, backedUp, clock, nextId, calls, batches,
                 compactTimer, activeTimers>>

StepBulkInputs ==
  { <<[op |-> "insert", doc |-> "b" :> Num(1)],
      [op |-> "patch", id |-> 1, doc |-> "a" :> Obj("y" :> Num(2))]>>,
    <<[op |-> "insert", doc |-> "b" :> Num(1)], [op |-> "delete", id |-> 2]>> }

NextSteps ==
  \/ insertAssign("books", "a" :> Obj("x" :> Num(1)))
  \/ patchAssign("books", 1, "a" :> Obj("y" :> Num(2)))
  \/ appendAndReturn
  \/ \E ops \in StepBulkInputs : bulkBegin("books", ops)
  \/ bulkStep
  \/ bulkEnd
  \/ startAutoCompact
  \/ \E timer \in 1..MaxTimers, outcome \in {"done", "snapshot", "journal"} :
        autoCompactTick(timer, outcome)

SpecSteps == Init /\ [][NextSteps]_vars

(***************************************************************************)
(* The process stops inside compact(), after snapshot() has replaced the   *)
(* snapshot file and before the journal is emptied.  The next process      *)
(* starts from the state of the constructor and calls load() first.        *)
(***************************************************************************)
compactStopped ==
  /\ calls < MaxCalls
  /\ dataFile' = snapshot(state)
  /\ state' = EmptyState
  /\ call' = [op |-> "compactStopped", memory |-> state]
  /\ UNCHANGED <<journalFile, clock, nextId, calls, batches, backupFiles, backedUp,
                 compactTimer, activeTimers, running>>

started == call.op # "compactStopped"

NextStopped ==
  \/ started /\ Tick
  \/ started /\ insert("books", "a" :> Obj("x" :> Num(1)))
  \/ started /\ \E d \in {"a" :> Obj("y" :> Num(2)), "b" :> Num(1)} : update("books", 1, d)
  \/ started /\ patch("books", 1, "a" :> Obj("y" :> Num(2)))
  \/ started /\ delete("books", 1)
  \/ started /\ compactStopped
  \/ load

SpecStopped == Init /\ [][NextStopped]_vars

(***************************************************************************)
(* What the claims speak of.                                               *)
(***************************************************************************)
Keys(col) == {col[i].id : i \in 1..Len(col)}

\* the documents of a state, as the set of <<collection, key>> they sit under
Stored(st) == {<<c, id>> : c \in DOMAIN st.collections, id \in Ids}
                \cap {ck \in Collections \X Ids : HasKey(ColOrEmpty(st, ck[1]), ck[2])}

UserKeys(doc) == DOMAIN doc \ ReservedKeys

UserPart(doc) == [key \in UserKeys(doc) |-> doc[key]]

(***************************************************************************)
(* C1: a fresh load() (snapshot file, then the journal replayed in file    *)
(* order) yields the in-memory state the accepted mutations produced, also *)
(* when an update or patch changes a field whose old and new values are    *)
(* both nested objects.                                                    *)
(***************************************************************************)
C1_ReplayEqualsMemory == loaded(dataFile, journalFile) = state

(***************************************************************************)
(* C2: a bulk call with an update, patch or delete of an id absent at that *)
(* point of the batch throws, and leaves the in-memory state (documents    *)
(* and collection names) and the journal as they were before the call.     *)
(***************************************************************************)
\* the keys of the collection before op i of the batch, when ops 1..i-1 succeeded
KeysBefore(keys, nid, ops, i) ==
  LET P[j \in 0..Len(ops)] ==
        IF j = 0 THEN keys
        ELSE IF ops[j].op = "insert"
             THEN P[j - 1] \cup {nid + Inserts(SubSeq(ops, 1, j - 1))}
             ELSE IF ops[j].op = "delete" THEN P[j - 1] \ {ops[j].id}
             ELSE P[j - 1]
  IN  P[i - 1]

NamesAbsentId(keys, nid, ops) ==
  \E i \in 1..Len(ops) :
     /\ ops[i].op \in {"update", "patch", "delete"}
     /\ ops[i].id \notin KeysBefore(keys, nid, ops, i)

C2_BulkAbortRestores ==
  [][call'.op = "bulk" =>
       /\ call'.threw <=>
            NamesAbsentId(Keys(ColOrEmpty(state, call'.collection)), nextId, call'.ops)
       /\ call'.threw => /\ state' = state
                         /\ journalFile' = journalFile
                         /\ dataFile' = dataFile]_vars

C2_Witness ==
  /\ call.op = "bulk"
  /\ call.threw
  /\ Len(call.ops) >= 2
  /\ call.ops[1].op = "insert"
  /\ call.collection \notin DOMAIN state.collections
  /\ state # EmptyState

(***************************************************************************)
(* C3: a bulk call whose ops all succeed returns one result per op in op   *)
(* order and appends to the journal exactly one entry per op, in op order, *)
(* after the entries that were there; a bulk call that throws has written  *)
(* no entry.                                                               *)
(***************************************************************************)
EntryOf(op, entry, result, collection) ==
  /\ entry.collection = collection
  /\ IF op.op = "insert"
     THEN entry.type = "insert" /\ entry.doc = result
     ELSE IF op.op \in {"update", "patch"}
     THEN entry.type = "update" /\ entry.id = op.id /\ entry.doc = result
     ELSE entry.type = "delete" /\ entry.id = op.id /\ result = [deleted |-> op.id]

C3_BulkCommitAppendsBatch ==
  [][call'.op = "bulk" =>
       IF call'.threw THEN journalFile' = journalFile
       ELSE /\ Len(call'.results) = Len(call'.ops)
            /\ Len(journalFile') = Len(journalFile) + Len(call'.ops)
            /\ SubSeq(journalFile', 1, Len(journalFile)) = journalFile
            /\ \A i \in 1..Len(call'.ops) :
                 EntryOf(call'.ops[i], journalFile'[Len(journalFile) + i],
                         call'.results[i], call'.collection)]_vars

C3_Witness ==
  /\ call.op = "bulk"
  /\ ~call.threw
  /\ Len(call.ops) = 2
  /\ call.ops[1].op = "patch"
  /\ call.ops[2].op = "delete"
  /\ Len(journalFile) = 3

(***************************************************************************)
(* C4: insert creates the collection if absent, stores under a new key a   *)
(* document made of the caller's user fields, a fresh uuid as _id and      *)
(* _createdAt = _updatedAt = now (the caller's _id, _createdAt and         *)
(* _updatedAt are ignored), appends one insert entry carrying that         *)
(* document, returns it and leaves every other document alone; the id is   *)
(* none of the ids handed out before.                                      *)
(***************************************************************************)
\* the ids the journal and the snapshot file name
IdsOnDisk ==
  {journalFile[i].doc["_id"] :
     i \in {j \in 1..Len(journalFile) : journalFile[j].type = "insert"}}
    \cup (IF dataFile = NoFile THEN {}
          ELSE UNION {{IdStr(k) : k \in Keys(dataFile.collections[c])} :
                        c \in DOMAIN dataFile.collections})

C4_InsertStoresFreshDocument ==
  [][call'.op = "insert" =>
       LET full == call'.ret
           c == call'.collection
           key == KeyOf(full["_id"])
       IN  /\ c \in DOMAIN state'.collections
           /\ DOMAIN state'.collections = DOMAIN state.collections \cup {c}
           /\ full["_id"].k = "id" /\ key \in Ids
           /\ \A c2 \in DOMAIN state.collections : key \notin Keys(state.collections[c2])
           /\ full["_id"] \notin IdsOnDisk
           /\ full["_createdAt"] = Time(clock) /\ full["_updatedAt"] = Time(clock)
           /\ UserPart(full) = UserPart(call'.doc)
           /\ DOMAIN full = UserKeys(call'.doc) \cup ReservedKeys
           /\ state'.collections[c] =
                Append(ColOrEmpty(state, c), [id |-> key, doc |-> full])
           /\ \A c2 \in DOMAIN state.collections \ {c} :
                state'.collections[c2] = state.collections[c2]
           /\ journalFile' = Append(journalFile,
                               [type |-> "insert", collection |-> c, doc |-> full])
           /\ dataFile' = dataFile]_vars

C4_Witness ==
  /\ call.op = "insert"
  /\ "_id" \in DOMAIN call.doc /\ "_createdAt" \in DOMAIN call.doc
  /\ call.ret["_id"] # call.doc["_id"]
  /\ call.ret["_createdAt"] # call.doc["_createdAt"]
  /\ Len(state.collections[call.collection]) = 2

(***************************************************************************)
(* C5: update on an existing id stores exactly the supplied fields plus    *)
(* the original id and createdAt and a refreshed updatedAt: a user field   *)
(* of the old document that is not a key of the supplied fields is absent  *)
(* from the stored document.                                               *)
(***************************************************************************)
C5_UpdateDropsUnsuppliedFields ==
  [][(call'.op = "update" /\ call'.ret # Undefined) =>
       LET old == get(state, call'.collection, call'.id)
           new == get(state', call'.collection, call'.id)
       IN  \A key \in UserKeys(old) \ DOMAIN call'.doc : key \notin DOMAIN new]_vars

(***************************************************************************)
(* C6: patch on an existing id deep-merges the user fields: at a key of    *)
(* the partial document where the existing and the incoming value are both *)
(* plain objects the result is their key-wise merge, recursively; at any   *)
(* other key of the partial document the incoming value stands; the other  *)
(* keys keep their value.                                                  *)
(***************************************************************************)
RECURSIVE IsMergeOf(_, _, _)
IsMergeOf(old, inc, res) ==
  /\ DOMAIN res = DOMAIN old \cup DOMAIN inc
  /\ \A key \in DOMAIN res :
       IF key \notin DOMAIN inc THEN res[key] = old[key]
       ELSE IF key \in DOMAIN old /\ old[key].k = "obj" /\ inc[key].k = "obj"
            THEN res[key].k = "obj" /\ IsMergeOf(old[key].o, inc[key].o, res[key].o)
            ELSE res[key] = inc[key]

C6_PatchDeepMerges ==
  [][(call'.op = "patch" /\ call'.ret # Undefined) =>
       LET old == get(state, call'.collection, call'.id)
           new == get(state', call'.collection, call'.id)
       IN  /\ new = call'.ret
           /\ IsMergeOf(UserPart(old), UserPart(call'.doc), UserPart(new))]_vars

\* {a: {x: {q: 2}}} merged into {a: {x: {p: 1}, y: 2}}
C6_Witness ==
  /\ call.op = "patch"
  /\ call.doc = "a" :> Obj("x" :> Obj("q" :> Num(2)))
  /\ call.ret["a"] =
       Obj(("x" :> Obj(("p" :> Num(1)) @@ ("q" :> Num(2)))) @@ ("y" :> Num(2)))

(***************************************************************************)
(* C7: every stored document's _id names the key it is stored under, and   *)
(* no call changes the _createdAt of a document that stays stored.         *)
(***************************************************************************)
C7_ReservedFieldsKept ==
  [][\A ck \in Stored(state') :
       LET new == get(state', ck[1], ck[2])
       IN  /\ new["_id"] = IdStr(ck[2])
           /\ ck \in Stored(state) =>
                new["_createdAt"] = get(state, ck[1], ck[2])["_createdAt"]]_vars

(***************************************************************************)
(* C8: every stored document has _updatedAt >= _createdAt.                 *)
(***************************************************************************)
C8_UpdatedNotBeforeCreated ==
  \A ck \in Stored(state) :
     LET doc == get(state, ck[1], ck[2])
     IN  /\ doc["_updatedAt"].k = "time"
         /\ doc["_createdAt"].k = "time"
         /\ doc["_updatedAt"].t >= doc["_createdAt"].t

(***************************************************************************)
(* C9: update, patch and delete of an id that is not in the collection     *)
(* (or of a collection that does not exist) return undefined / false and   *)
(* leave the in-memory state, the collection names and the files alone.    *)
(***************************************************************************)
C9_NotFoundChangesNothing ==
  [][(/\ call'.op \in {"update", "patch", "delete"}
      /\ call'.id \notin Keys(ColOrEmpty(state, call'.collection))) =>
       /\ call'.ret = IF call'.op = "delete" THEN FALSE ELSE Undefined
       /\ state' = state
       /\ DOMAIN state'.collections = DOMAIN state.collections
       /\ journalFile' = journalFile
       /\ dataFile' = dataFile]_vars

C9_Witness ==
  /\ call.op = "patch"
  /\ call.ret = Undefined
  /\ call.collection \notin DOMAIN state.collections
  /\ \E c \in DOMAIN state.collections : call.id \in Keys(state.collections[c])

(***************************************************************************)
(* C10: compact() leaves the in-memory state as it is: every query of      *)
(* every collection returns the same total and the same items before and   *)
(* after it.                                                               *)
(***************************************************************************)
QueryInputs ==
  [q : {Undefined, [k |-> "filter", o |-> "b" :> Num(1)]},
   sort : {Undefined, [field |-> "_updatedAt", dir |-> "desc"],
           [field |-> "_updatedAt", dir |-> "asc"]},
   offset : {Undefined, Num(1)},
   limit : {Undefined, Num(1)}]

C10_CompactKeepsQueryResults ==
  [][call'.op = "compact" =>
       /\ state' = state
       /\ \A c \in Collections, opts \in QueryInputs :
            query(state', c, opts) = query(state, c, opts)]_vars

C10_Witness ==
  /\ call.op = "compact"
  /\ journalFile = <<>>
  /\ dataFile # NoFile
  /\ \E c \in DOMAIN state.collections :
       /\ Len(state.collections[c]) = 2
       /\ query(state, c, [q |-> Undefined, sort |-> [field |-> "_updatedAt", dir |-> "desc"],
                           offset |-> Undefined, limit |-> Num(1)]).items
            = <<state.collections[c][2].doc>>

(***************************************************************************)
(* C11: restore() of the file a backup() returned, after any mutations in  *)
(* between, makes the in-memory state the state at the time of that        *)
(* backup, makes the snapshot file hold it and empties the journal, so     *)
(* that a load() yields it again.                                          *)
(***************************************************************************)
C11_RestoreReproducesBackup ==
  [][(call'.op = "restore" /\ ~call'.threw) =>
       /\ state' = backedUp[call'.file]
       /\ dataFile' = JSONstate(backedUp[call'.file])
       /\ journalFile' = <<>>
       /\ loaded(dataFile', journalFile') = backedUp[call'.file]]_vars

\* the second document was inserted after the backup and is gone
C11_Witness ==
  /\ call.op = "restore"
  /\ ~call.threw
  /\ nextId = 3
  /\ "books" \in DOMAIN state.collections
  /\ Keys(state.collections["books"]) = {1}
  /\ calls = 3

(***************************************************************************)
(* C12: backup() leaves the in-memory state, the snapshot file and the     *)
(* journal as they are and writes a new file: no file of an earlier backup *)
(* is replaced or changed, also when two calls read the same clock value.  *)
(***************************************************************************)
C12_BackupIsAdditive ==
  [][call'.op = "backup" =>
       /\ state' = state /\ dataFile' = dataFile /\ journalFile' = journalFile
       /\ call'.ret \notin DOMAIN backupFiles
       /\ \A file \in DOMAIN backupFiles :
            file \in DOMAIN backupFiles' /\ backupFiles'[file] = backupFiles[file]]_vars

(***************************************************************************)
(* C20: an entry leaves the journal only in a compact() (called directly,  *)
(* by restore or by importJSON) that has written the whole current state   *)
(* to the snapshot file; a compact() whose snapshot write throws leaves    *)
(* the journal with every entry it held.                                   *)
(***************************************************************************)
IsPrefix(s, t) == Len(s) <= Len(t) /\ SubSeq(t, 1, Len(s)) = s

C20_JournalEmptiedAfterSnapshot ==
  [][/\ ~IsPrefix(journalFile, journalFile') =>
          /\ call'.op \in {"compact", "restore", "importJSON"}
          /\ journalFile' = <<>>
          /\ dataFile' = JSONstate(state')
     /\ (call'.op = "compact" /\ call'.threw /\ call'.step = "snapshot") =>
          journalFile' = journalFile /\ dataFile' = dataFile]_vars

C20_Witness ==
  /\ call.op = "compact"
  /\ call.threw
  /\ call.step = "snapshot"
  /\ Len(journalFile) = 2
  /\ dataFile = NoFile

(***************************************************************************)
(* C17: in the replay of the journal an update entry leaves under its id   *)
(* exactly the document the entry carries, whether or not a document was   *)
(* there and whatever it held; a delete entry removes the document under   *)
(* its id and changes no other document.                                   *)
(***************************************************************************)
C17_ReplaySetsEntryDocument ==
  \A i \in 1..Len(journalFile) :
     LET entry == journalFile[i]
         before == loaded(dataFile, SubSeq(journalFile, 1, i - 1))
         after == applyJournal(before, entry)
     IN  /\ entry.type = "update" =>
              /\ HasKey(ColOrEmpty(after, entry.collection), entry.id)
              /\ get(after, entry.collection, entry.id) = entry.doc
         /\ entry.type = "delete" =>
              /\ Stored(after) = Stored(before) \ {<<entry.collection, entry.id>>}
              /\ \A ck \in Stored(after) :
                   get(after, ck[1], ck[2]) = get(before, ck[1], ck[2])

(***************************************************************************)
(* C18: load() with a journal that holds unparseable lines at any          *)
(* positions yields the state got by applying every parseable entry, in    *)
(* file order, to the snapshot (a well-formed or absent one): the entries  *)
(* before and after a bad line are all applied.                            *)
(***************************************************************************)
\* the parseable entries of a journal, in file order
RECURSIVE Entries(_)
Entries(lines) ==
  IF lines = <<>> THEN <<>>
  ELSE IF Head(lines) \in {Garbage, BlankLine} THEN Entries(Tail(lines))
  ELSE <<Head(lines)>> \o Entries(Tail(lines))

\* every entry applied in turn
ApplyAll(st, entries) ==
  LET A[i \in 0..Len(entries)] ==
        IF i = 0 THEN st ELSE applyJournal(A[i - 1], entries[i])
  IN  A[Len(entries)]

C18_BadLinesSkipped ==
  [][(call'.op = "load" /\ isState(readJsonFile(dataFile, EmptyState))) =>
       state' = ApplyAll(readJsonFile(dataFile, EmptyState), Entries(journalFile))]_vars

\* an insert entry, a bad line, an update entry: both entries are applied
C18_Witness ==
  /\ call.op = "load"
  /\ Len(journalFile) >= 3
  /\ journalFile[1] # Garbage /\ journalFile[1] # BlankLine
  /\ journalFile[1].type = "insert"
  /\ journalFile[2] = Garbage
  /\ journalFile[3] # Garbage /\ journalFile[3] # BlankLine
  /\ journalFile[3].type = "update"
  /\ get(state, "books", 1) # Undefined
  /\ get(state, "books", 1)["a"] = Obj(("x" :> Num(1)) @@ ("y" :> Num(2)))

(***************************************************************************)
(* C19: when the snapshot file is absent, does not parse, or parses to a   *)
(* value that is not of the shape {collections: ...}, load() yields the    *)
(* journal replayed over the empty database.                               *)
(***************************************************************************)
C19_BadSnapshotFallsBack ==
  [][(call'.op = "load" /\ (dataFile \in {NoFile, Garbage} \/ ~isState(dataFile))) =>
       state' = ApplyAll(EmptyState, Entries(journalFile))]_vars

(***************************************************************************)
(* C13: for offset and limit that are non-negative integers (0 and 100     *)
(* when absent) query returns as total the number of documents that match  *)
(* the filter, whatever sort, offset and limit are, and as items the       *)
(* filtered and sorted sequence from position offset on, limit items at    *)
(* most: min(limit, max(0, total - offset)) of them.                       *)
(***************************************************************************)
Values(st, collection) ==
  LET col == ColOrEmpty(st, collection) IN [i \in 1..Len(col) |-> col[i].doc]

NaturalOr(x, default) ==
  IF x = Undefined THEN default ELSE IF x.k = "num" /\ x.n >= 0 THEN x.n ELSE -1

C13_PageOfFilteredSorted ==
  [][(/\ call'.op = "query"
      /\ NaturalOr(call'.opts.offset, 0) >= 0
      /\ NaturalOr(call'.opts.limit, 100) >= 0) =>
       LET opts == call'.opts
           offset == NaturalOr(opts.offset, 0)
           limit == NaturalOr(opts.limit, 100)
           filtered == SelectSeq(Values(state, call'.collection),
                                 LAMBDA d : filterByQuery(d, opts.q))
           ordered == IF opts.sort = Undefined THEN filtered
                      ELSE sorted(filtered, parseSort(opts.sort))
           total == Len(filtered)
           count == Min(limit, Max(0, total - offset))
       IN  /\ ~call'.threw
           /\ call'.ret.total = total
           /\ Len(call'.ret.items) = count
           /\ \A i \in 1..count : call'.ret.items[i] = ordered[offset + i]]_vars

\* the second of two matching documents: offset 1, limit 1
C13_Witness ==
  /\ call.op = "query"
  /\ call.opts.offset = Num(1)
  /\ call.opts.limit = Num(1)
  /\ call.opts.q = [k |-> "filter", o |-> "n" :> Num(2)]
  /\ ~call.threw
  /\ call.ret.total = 2
  /\ Len(call.ret.items) = 1
  /\ call.ret.items[1]["_id"] = IdStr(2)

(***************************************************************************)
(* C14: a query whose offset or limit is negative or not an integer fails  *)
(* with InvalidInput and returns no page, on the engine and through the    *)
(* HTTP route.                                                             *)
(***************************************************************************)
C14_BadPagingRejected ==
  [][(/\ call'.op = "query"
      /\ \/ NaturalOr(call'.opts.offset, 0) < 0
         \/ NaturalOr(call'.opts.limit, 100) < 0) =>
       call'.threw /\ call'.ret = Undefined]_vars

(***************************************************************************)
(* C15: with a sort on a field that holds numbers, or strings, in every    *)
(* document, the filtered documents are put in non-decreasing order of the *)
(* field ('field', 'field:asc') or in non-increasing order ('field:desc'), *)
(* documents with equal values stay in their order in the collection, and  *)
(* the page is cut from that sequence.                                     *)
(***************************************************************************)
\* v comes before w: numbers by size, strings from their first difference on
Less(v, w) ==
  IF v.k = "num" THEN v.n < w.n
  ELSE \E i \in 1..Len(w.s) :
          /\ \A j \in 1..(i - 1) : j <= Len(v.s) /\ v.s[j] = w.s[j]
          /\ i > Len(v.s) \/ (i - 1 < Len(v.s) /\ Ord(v.s[i]) < Ord(w.s[i]))

C15_SortedStableThenPaged ==
  [][(/\ call'.op = "query"
      /\ call'.opts.sort # Undefined
      /\ NaturalOr(call'.opts.offset, 0) >= 0
      /\ NaturalOr(call'.opts.limit, 100) >= 0) =>
       LET opts == call'.opts
           field == opts.sort.field
           filtered == SelectSeq(Values(state, call'.collection),
                                 LAMBDA d : filterByQuery(d, opts.q))
           Before(i, j) ==
             LET v == filtered[i][field]
                 w == filtered[j][field]
             IN  \/ IF opts.sort.dir = "desc" THEN Less(w, v) ELSE Less(v, w)
                 \/ v = w /\ i < j
           Rank(j) == Cardinality({i \in 1..Len(filtered) : Before(i, j)})
           items == call'.ret.items
       IN  \A p \in 1..Len(items) :
              \E j \in 1..Len(filtered) :
                 /\ items[p] = filtered[j]
                 /\ Rank(j) = NaturalOr(opts.offset, 0) + p - 1]_vars

\* 'title:desc' over Dune, dune: the later document comes first
C15_Witness ==
  /\ call.op = "query"
  /\ call.opts.sort = [field |-> "title", dir |-> "desc"]
  /\ call.opts.q = [k |-> "filter", o |-> "n" :> Num(2)]
  /\ call.opts.offset = Undefined /\ call.opts.limit = Undefined
  /\ ~call.threw
  /\ Len(call.ret.items) = 2
  /\ call.ret.items[1]["_id"] = IdStr(2)
  /\ call.ret.items[1]["title"] = Str(toLowerCase(Dune))
  /\ call.ret.items[2]["title"] = Str(Dune)

(***************************************************************************)
(* C16: an absent filter matches every document; the text of an object     *)
(* matches a document iff the document has every key of the object with    *)
(* the same value; any other filter text, a word or a bare number, matches *)
(* iff the lower-cased serialization of the document contains the          *)
(* lower-cased text.  With {title:'Dune'} and {title:'Foundation'} in      *)
(* 'books', q='Dune' gives total 1 and the Dune document.                  *)
(***************************************************************************)
Matches(doc, q) ==
  IF q = Undefined THEN TRUE
  ELSE IF q.k = "filter"
  THEN \A key \in DOMAIN q.o : key \in DOMAIN doc /\ doc[key] = q.o[key]
  ELSE LET text == IF q.k = "number" THEN <<Digit(q.n)>> ELSE q.s
       IN  includes(toLowerCase(stringify(Obj(doc))), toLowerCase(text))

C16_FilterSelects ==
  [][(call'.op = "query" /\ ~call'.threw) =>
       LET values == Values(state, call'.collection)
           matching == SelectSeq(values, LAMBDA d : Matches(d, call'.opts.q))
       IN  /\ call'.ret.total = Len(matching)
           /\ (call'.opts.sort = Undefined /\ call'.opts.offset = Undefined
                 /\ call'.opts.limit = Undefined) => call'.ret.items = matching
           /\ (/\ call'.opts.q = [k |-> "text", s |-> Dune]
               /\ Len(values) = 2
               /\ values[1]["title"] = Str(Dune)
               /\ values[2]["title"] = Str(<<"F", "o", "u", "n", "d", "a", "t", "i", "o", "n">>)) =>
                call'.ret.total = 1]_vars

(***************************************************************************)
(* C21: an importNDJSON that throws on a malformed line leaves the         *)
(* in-memory state and the journal as they were before the call, so that   *)
(* a load() after it yields what a load() before it would have.            *)
(***************************************************************************)
C21_FailedImportChangesNothing ==
  [][(call'.op = "importNDJSON" /\ call'.threw) =>
       /\ state' = state
       /\ journalFile' = journalFile
       /\ loaded(dataFile', journalFile') = loaded(dataFile, journalFile)]_vars

(***************************************************************************)
(* C22: when the journal append of an insert, update, patch, delete or     *)
(* bulk call throws a storage error, the call throws and the in-memory     *)
(* state holds no mutation whose entry is not in the journal: with the     *)
(* journal as it was, the state is as it was.                              *)
(***************************************************************************)
C22_FailedAppendKeepsPair ==
  [][("io" \in DOMAIN call' /\ journalFile' = journalFile) => state' = state]_vars

(***************************************************************************)
(* C23: between startAutoCompact() and stopAutoCompact() every tick of the *)
(* timer runs compact(); a compact() that throws in a tick is caught, and  *)
(* the timer stays active, so the next tick can run compact() again; there *)
(* is never more than one active timer, however often startAutoCompact()   *)
(* is called; after stopAutoCompact() no timer is active, so no tick runs. *)
(***************************************************************************)
C23_OneTimerCompactsUntilStopped ==
  /\ [](/\ Cardinality(activeTimers) <= 1
        /\ \A timer \in activeTimers :
             running = Idle => ENABLED autoCompactTick(timer, "done"))
  /\ [][/\ call'.op = "startAutoCompact" => activeTimers' = {compactTimer'}
        /\ call'.op = "stopAutoCompact" => activeTimers' = {}
        /\ call'.op = "autoCompact" =>
             /\ activeTimers = {call'.timer} /\ activeTimers' = activeTimers
             /\ state' = state
             /\ IF call'.caught THEN journalFile' = journalFile
                ELSE dataFile' = JSONstate(state) /\ journalFile' = <<>>]_vars

\* a tick of the second timer whose compact() threw; the timer is still active
C23_Witness ==
  /\ call.op = "autoCompact"
  /\ call.caught
  /\ call.timer = 2
  /\ activeTimers = {2}
  /\ Len(journalFile) = 2

(***************************************************************************)
(* C24: between the in-memory update of a mutation, or of a bulk batch     *)
(* with its rollback, and its journal append nothing else of the process   *)
(* runs; so a compaction starts only when memory holds exactly the         *)
(* mutations the journal holds over the snapshot, and the snapshot it      *)
(* writes before it empties the journal holds all of them and no part of   *)
(* a batch that is not committed.                                          *)
(***************************************************************************)
\* an entry applied as the mutation it records: the document it carries is set
ApplyExact(st, entries) ==
  LET A[i \in 0..Len(entries)] ==
        IF i = 0 THEN st
        ELSE LET e == entries[i]
             IN  IF e.type = "insert"
                 THEN SetDoc(A[i - 1], e.collection, KeyOf(e.doc["_id"]), e.doc)
                 ELSE IF e.type = "update"
                 THEN SetDoc(A[i - 1], e.collection, e.id, e.doc)
                 ELSE deleteDoc(A[i - 1], e.collection, e.id)
  IN  A[Len(entries)]

\* memory holds the snapshot with the mutations of the journal, and no other
MatchingPair(st, file, journal) ==
  st = ApplyExact(readJsonFile(file, EmptyState), journal)

C24_HandlersRunToCompletion ==
  [][/\ running # Idle => call'.op \in {"assign", "return"}
     /\ call'.op = "autoCompact" =>
          /\ running = Idle
          /\ MatchingPair(state, dataFile, journalFile)
          /\ ~call'.caught => /\ dataFile' = JSONstate(state')
                              /\ journalFile' = <<>>
                              /\ MatchingPair(state', dataFile', journalFile')]_vars

\* a compaction after a batch that was rolled back: its insert is in no file
C24_Witness ==
  /\ call.op = "autoCompact"
  /\ ~call.caught
  /\ batches = 1
  /\ nextId = 2
  /\ state = EmptyState
  /\ dataFile = JSONstate(EmptyState)

(***************************************************************************)
(* C25: when the process stops after compact() has replaced the snapshot   *)
(* file and before it has emptied the journal, the next load(), replaying  *)
(* the whole journal over the new snapshot, yields the state that was in   *)
(* memory when compact() started.                                          *)
(***************************************************************************)
C25_ReplayOverNewSnapshot ==
  [][(call.op = "compactStopped" /\ call'.op = "load") => state' = call.memory]_vars

====
